---------------------------- MODULE Spec2Model ----------------------------
(***************************************************************************)
(* A model of the Robin Hood hash map of src/src/lib.rs (crate rhh).       *)
(*                                                                         *)
(* The map is one record, `map`, with the fields of struct HashMap.  Its   *)
(* methods are operators from a map record to a map record, written as     *)
(* the code computes them: the probe loops of insert_raw and index are     *)
(* recursive operators that carry the loop's local variables.  The only    *)
(* public mutator is insert (grow and insert_raw are private and run       *)
(* inside it), so insert is the model's action; get, len, capacity and     *)
(* the iterators take &self and are operators on the current map.          *)
(***************************************************************************)
EXTENDS Integers, Sequences, FiniteSets, TLC

(***************************************************************************)
(* Bounds of the model.                                                    *)
(***************************************************************************)
\* hash_key ranges over 1..MaxHash (it is never 0).
MaxHash == 4
\* Requested capacities of the "any capacity" specification are 1..MaxRequested.
MaxRequested == 5
\* The width in bits of a hash in the calls of hash_key on raw hashes (64 in the code).
HashBits == 5
\* The largest argument in the calls of pow2.
MaxPow2Arg == 64

\* The keys: four of them fill a table of capacity 4 and take a table of
\* capacity 2 through two growths.
Keys == {1, 2, 3, 4}
Hashes == 1..MaxHash
\* Values are opaque to the map; two of them tell an overwrite from a no-op.
Vals == {1, 2}
\* Power-of-two capacities the main specification constructs the map with.
InitCaps == {2, 4}

(***************************************************************************)
(* Program constants.                                                      *)
(***************************************************************************)
\* with_capacity: the default load factor.
DefaultLoadFactor == 90
\* pow2: the loop runs while i < (1 << 62).
Pow2LimitShift == 62

VARIABLES
    map,        \* the HashMap: [elems, len, capacity, threshold, mask, load_factor]
    hashOf,     \* the value of hash_key for each key (fixed for a run)
    requested,  \* history: the capacity the constructor was called with
    inserted,   \* history: the value of the last completed insert of each key (0: none)
    grows,      \* history: the number of calls of grow so far
    hung,       \* TRUE once a call of insert has entered a probe loop that never exits
    calc        \* a call of one of the free functions: its argument and its outcome

vars == <<map, hashOf, requested, inserted, grows, hung, calc>>

(***************************************************************************)
(* Option<T>: None is the empty tuple, Some(x) the one-element tuple.      *)
(***************************************************************************)
None == <<>>
Some(x) == <<x>>
Unwrap(o) == o[1]

\* HashElem::new
HashElem(d, k, v, h) == [dist |-> d, key |-> k, value |-> v, hash |-> h]

(***************************************************************************)
(* Bitwise and of two naturals (the code's & on u64 and usize), bit by     *)
(* bit.  Against a mask of all ones, 2^j - 1, it is the remainder modulo   *)
(* 2^j, which is taken directly for the masks of tables up to 32 slots.    *)
(***************************************************************************)
RECURSIVE BitAndBits(_, _)
BitAndBits(a, b) ==
    IF a = 0 \/ b = 0 THEN 0
    ELSE (a % 2) * (b % 2) + 2 * BitAndBits(a \div 2, b \div 2)

BitAnd(a, b) ==
    IF b \in {0, 1, 3, 7, 15, 31} THEN a % (b + 1) ELSE BitAndBits(a, b)

RECURSIVE Pow2Of(_)
Pow2Of(e) == IF e = 0 THEN 1 ELSE 2 * Pow2Of(e - 1)

(***************************************************************************)
(* pow2: the loop variable i runs over 2, 4, 8, ...; it is carried here as *)
(* its exponent e (i = 2^e), so that the limit 1 << 62 is compared without *)
(* being computed.  The result 0 stands for the panic after the loop.      *)
(***************************************************************************)
RECURSIVE pow2_loop(_, _)
pow2_loop(e, v) ==
    IF e < Pow2LimitShift
    THEN IF Pow2Of(e) >= v THEN Pow2Of(e) ELSE pow2_loop(e + 1, v)
    ELSE 0

pow2(v) == pow2_loop(1, v)

\* distance: the probe distance of a hash in slot i.
distance(h, i, cap) ==
    LET msk == cap - 1
    IN  BitAnd(i + cap - BitAnd(h, msk), msk)

(***************************************************************************)
(* hash_key after the xxhash of the key: the raw hash is an unsigned       *)
(* integer of HashBits bits.  The code reads it as a signed integer of the *)
(* same width and, when that is negative, subtracts it from 0 in signed    *)
(* arithmetic.  The subtraction overflows for the least signed value: a    *)
(* build with overflow checks panics there, a build without them wraps.    *)
(* An outcome is either a panic or the hash returned.                      *)
(***************************************************************************)
Panicked == [panicked |-> TRUE, value |-> 0]
Returned(x) == [panicked |-> FALSE, value |-> x]

\* h as i64, x as u64, and the range of i64.
AsSigned(h) == IF h >= Pow2Of(HashBits - 1) THEN h - Pow2Of(HashBits) ELSE h
AsUnsigned(x) == (x + Pow2Of(HashBits)) % Pow2Of(HashBits)
SignedMax == Pow2Of(HashBits - 1) - 1
SignedMin == 0 - Pow2Of(HashBits - 1)

\* The signed subtraction a - b: its overflow, and its wrapped result.
SubOverflows(a, b) == a - b > SignedMax \/ a - b < SignedMin
WrappingSub(a, b) == AsSigned(AsUnsigned(a - b))

\* Faulty variant: a raw hash of zero is returned as it is.
hash_normalize_keeping_zero(raw, overflow_checks) ==
    IF AsSigned(raw) < 0
    THEN IF overflow_checks /\ SubOverflows(0, AsSigned(raw))
         THEN Panicked
         ELSE Returned(AsUnsigned(WrappingSub(0, AsSigned(raw))))
    ELSE Returned(raw)

hash_normalize(raw, overflow_checks) ==
    IF raw = 0
    THEN Returned(1)
    ELSE IF AsSigned(raw) < 0
    THEN IF overflow_checks /\ SubOverflows(0, AsSigned(raw))
         THEN Panicked
         ELSE Returned(AsUnsigned(WrappingSub(0, AsSigned(raw))))
    ELSE Returned(raw)

\* hash_key in the runs of the map: a fixed non-zero hash for every key.
hash_key(k) == hashOf[k]

\* Faulty variant: the capacity field is the requested capacity.
with_capacity_unrounded(n, f) ==
    [ elems       |-> [i \in 0..(n - 1) |-> None],
      len         |-> 0,
      capacity    |-> n,
      threshold   |-> (n * f) \div 100,
      mask        |-> n - 1,
      load_factor |-> f ]

(***************************************************************************)
(* HashMap::with_capacity_and_factor.  The slot vector, the threshold and  *)
(* the mask are computed from the requested capacity n; only the capacity  *)
(* field is rounded by pow2.  Slots are indexed from 0.                    *)
(***************************************************************************)
with_capacity_and_factor(n, f) ==
    [ elems       |-> [i \in 0..(n - 1) |-> None],
      len         |-> 0,
      capacity    |-> pow2(n),
      threshold   |-> (n * f) \div 100,
      mask        |-> n - 1,
      load_factor |-> f ]

\* elems.len()
NumSlots(m) == Cardinality(DOMAIN m.elems)

(***************************************************************************)
(* HashMap::insert_raw.  One call of insert_raw_loop is one iteration of   *)
(* the loop, with the locals pos, dist and entry.  The result is the map,  *)
(* the returned bool and done; done is FALSE when the loop never exits.    *)
(*                                                                         *)
(* The loop exits only at an empty slot or at a slot whose key equals the  *)
(* pending key.  The positions it visits are eventually periodic with a    *)
(* period of at most elems.len(), keys in the table are distinct and the   *)
(* pending key is never the key of another slot, so a loop that has not    *)
(* exited after ProbeFuel(m) iterations visits only occupied slots with    *)
(* other keys from then on and never exits.                                *)
(***************************************************************************)
ProbeFuel(m) == 2 * NumSlots(m) + 2

\* pos = (pos + 1) & self.mask
NextPos(pos, m) == BitAnd(pos + 1, m.mask)

\* Faulty variant: the pending entry also displaces an occupant that has probed as far.
DisplacesOrEqual(elem_dist, dist) == elem_dist <= dist

\* Faulty variant: no occupant is ever displaced (plain linear probing).
DisplacesNever(elem_dist, dist) == FALSE

\* The Robin Hood rule of insert_raw: the occupant has probed less than the
\* pending entry (elem_dist < dist).
Displaces(elem_dist, dist) == elem_dist < dist

\* Faulty variant: the overwrite counts the entry again.
OverwriteSlotCounting(m, pos, entry) ==
    [m EXCEPT !.elems[pos] = Some(entry), !.len = @ + 1]

\* insert_raw at the slot holding the pending key: the entry replaces it.
OverwriteSlot(m, pos, entry) == [m EXCEPT !.elems[pos] = Some(entry)]

\* insert_raw at an empty slot: the entry is placed and counted.
FillSlot(m, pos, entry) ==
    [m EXCEPT !.elems[pos] = Some(entry), !.len = @ + 1]

RECURSIVE insert_raw_loop(_, _, _, _, _)
insert_raw_loop(m, pos, dist, pending, fuel) ==
    LET entry == [pending EXCEPT !.dist = dist]
    IN  IF fuel = 0
        THEN [map |-> m, ret |-> FALSE, done |-> FALSE]
        ELSE IF m.elems[pos] = None
        THEN [map  |-> FillSlot(m, pos, entry),
              ret  |-> FALSE,
              done |-> TRUE]
        ELSE IF Unwrap(m.elems[pos]).key = entry.key
        THEN [map  |-> OverwriteSlot(m, pos, entry),
              ret  |-> TRUE,
              done |-> TRUE]
        ELSE LET e == Unwrap(m.elems[pos])
                 elem_dist == distance(e.hash, pos, m.capacity)
             IN  IF Displaces(elem_dist, dist)
                 THEN \* dist = elem_dist; entry.dist = dist; swap(e, entry)
                      insert_raw_loop(
                          [m EXCEPT !.elems[pos] =
                              Some([entry EXCEPT !.dist = elem_dist])],
                          NextPos(pos, m), elem_dist + 1, e, fuel - 1)
                 ELSE insert_raw_loop(
                          m, NextPos(pos, m), dist + 1, entry, fuel - 1)

insert_raw(m, h, k, v) ==
    insert_raw_loop(m, BitAnd(h, m.mask), 0, HashElem(0, k, v, h), ProbeFuel(m))

(***************************************************************************)
(* HashMap::grow: a new map of capacity * 2, every occupied slot of the    *)
(* old one reinserted in slot order, then swapped in.                      *)
(***************************************************************************)
RECURSIVE grow_loop(_, _, _)
grow_loop(old, i, new_map) ==
    IF i >= NumSlots(old)
    THEN [map |-> new_map, done |-> TRUE]
    ELSE IF old.elems[i] = None
    THEN grow_loop(old, i + 1, new_map)
    ELSE LET e == Unwrap(old.elems[i])
             r == insert_raw(new_map, e.hash, e.key, e.value)
         IN  IF r.done
             THEN grow_loop(old, i + 1, r.map)
             ELSE [map |-> new_map, done |-> FALSE]

\* Faulty variant: the rehash starts after the first slot.
grow_skipping_first(m) ==
    grow_loop(m, 1, with_capacity_and_factor(m.capacity * 2, m.load_factor))

\* Faulty variant: the entries are copied to the slots they had, not rehashed.
grow_copying(m) ==
    LET new_map == with_capacity_and_factor(m.capacity * 2, m.load_factor)
    IN  [map  |-> [new_map EXCEPT
                      !.elems = [i \in DOMAIN new_map.elems |->
                                    IF i < NumSlots(m) THEN m.elems[i] ELSE None],
                      !.len = m.len],
         done |-> TRUE]

\* Faulty variant: the table grows fourfold.
grow_fourfold(m) ==
    grow_loop(m, 0, with_capacity_and_factor(m.capacity * 4, m.load_factor))

grow(m) ==
    grow_loop(m, 0, with_capacity_and_factor(m.capacity * 2, m.load_factor))

\* Faulty variant: growth waits until len exceeds the capacity.
NeedsGrowPastCapacity(m) == m.len > m.capacity

\* The condition under which insert calls grow.
NeedsGrow(m) == m.len > m.threshold

(***************************************************************************)
(* HashMap::insert.                                                        *)
(***************************************************************************)
insert(m, k, v) ==
    LET g == IF NeedsGrow(m) THEN grow(m) ELSE [map |-> m, done |-> TRUE]
    IN  IF g.done
        THEN LET r == insert_raw(g.map, hash_key(k), k, v)
             IN  [map |-> r.map, done |-> r.done, grew |-> NeedsGrow(m)]
        ELSE [map |-> g.map, done |-> FALSE, grew |-> TRUE]

(***************************************************************************)
(* HashMap::index.  The loop exits at the latest when dist exceeds every   *)
(* probe distance, and distance(..) < capacity, so it needs no fuel.  The  *)
(* result carries the number of slots examined.                            *)
(***************************************************************************)
\* Faulty variant: the lookup gives up one slot early.
ProbedPastOrAt(dist, elem_dist) == dist >= elem_dist

\* Faulty variant: the lookup gives up one slot late.
ProbedPastLate(dist, elem_dist) == dist > elem_dist + 1

\* index gives up at a slot whose entry has probed less than the lookup.
ProbedPast(dist, elem_dist) == dist > elem_dist

\* Faulty variant: the hash alone decides.
MatchesHash(e, h, k) == e.hash = h

\* index finds the key at a slot with the same hash and an equal key.
Matches(e, h, k) == e.hash = h /\ k = e.key

RECURSIVE index_loop(_, _, _, _, _)
index_loop(m, h, k, pos, dist) ==
    IF m.elems[pos] = None
    THEN [pos |-> None, probes |-> dist + 1]
    ELSE LET e == Unwrap(m.elems[pos])
         IN  IF ProbedPast(dist, distance(e.hash, pos, m.capacity))
             THEN [pos |-> None, probes |-> dist + 1]
             ELSE IF Matches(e, h, k)
             THEN [pos |-> Some(pos), probes |-> dist + 1]
             ELSE index_loop(m, h, k, NextPos(pos, m), dist + 1)

index(m, k) ==
    LET h == hash_key(k)
    IN  index_loop(m, h, k, BitAnd(h, m.mask), 0).pos

\* HashMap::get
get(m, k) ==
    LET i == index(m, k)
    IN  IF i = None THEN None ELSE Some(Unwrap(m.elems[Unwrap(i)]).value)

\* HashMap::len and HashMap::capacity
len(m) == m.len
capacity(m) == m.capacity

(***************************************************************************)
(* Iter: the fields at and num_found (the map it borrows is the argument   *)
(* m).  Iter_next is Iter::next: the iterator after the call and the item  *)
(* returned, a (key, value) pair.                                          *)
(***************************************************************************)
Iter_new == [at |-> 0, num_found |-> 0]

\* Faulty variant: the scan stops after len slots.
IterAtLen(m, it) == it.at >= m.len

\* self.at >= self.map.elems.len()
IterAtEnd(m, it) == it.at >= NumSlots(m)

RECURSIVE Iter_next(_, _)
Iter_next(m, it) ==
    IF IterAtEnd(m, it)
    THEN [it |-> it, item |-> None]
    ELSE LET e == m.elems[it.at]
         IN  IF e # None
             THEN [it   |-> [at |-> it.at + 1, num_found |-> it.num_found + 1],
                   item |-> Some(<<Unwrap(e).key, Unwrap(e).value>>)]
             ELSE Iter_next(m, [it EXCEPT !.at = @ + 1])

\* Iter::size_hint: self.map.len() as usize - self.num_found, an unsigned
\* subtraction, which underflows when num_found exceeds len.
SizeHintUnderflows(m, it) == len(m) < it.num_found

\* Faulty variant: the hint counts the slots, not the entries.
size_hint_of_capacity(m, it) ==
    LET hint == capacity(m) - it.num_found
    IN  <<hint, Some(hint)>>

size_hint(m, it) ==
    LET hint == len(m) - it.num_found
    IN  <<hint, Some(hint)>>

\* Keys::next
Keys_next(m, it) ==
    LET r == Iter_next(m, it)
    IN  [it   |-> r.it,
         item |-> IF r.item = None THEN None ELSE Some(Unwrap(r.item)[1])]

\* HashMap::iter_mut: elems.iter_mut().filter_map(..), from slot i on.
RECURSIVE iter_mut_from(_, _)
iter_mut_from(m, i) ==
    IF i >= NumSlots(m)
    THEN <<>>
    ELSE IF m.elems[i] = None
    THEN iter_mut_from(m, i + 1)
    ELSE <<[slot |-> i,
            item |-> <<Unwrap(m.elems[i]).key, Unwrap(m.elems[i]).value>>]>>
         \o iter_mut_from(m, i + 1)

iter_mut(m) == iter_mut_from(m, 0)

(***************************************************************************)
(* An iterator run to exhaustion: the items in the order next returns      *)
(* them, each with the slot it was read from (at - 1 after the call).      *)
(***************************************************************************)
RECURSIVE IterDrain(_, _)
IterDrain(m, it) ==
    LET r == Iter_next(m, it)
    IN  IF r.item = None
        THEN <<>>
        ELSE <<[slot |-> r.it.at - 1, item |-> Unwrap(r.item)]>>
             \o IterDrain(m, r.it)

RECURSIVE KeysDrain(_, _)
KeysDrain(m, it) ==
    LET r == Keys_next(m, it)
    IN  IF r.item = None
        THEN <<>>
        ELSE <<Unwrap(r.item)>> \o KeysDrain(m, r.it)

(***************************************************************************)
(* The state machine.                                                      *)
(***************************************************************************)
\* No call of a free function is under way.
NoCalc == [fn |-> "none"]

InitFor(caps, factors, hashfns) ==
    /\ \E n \in caps, f \in factors :
          /\ requested = n
          /\ map = with_capacity_and_factor(n, f)
    /\ hashOf \in hashfns
    /\ inserted = [k \in DOMAIN hashOf |-> 0]
    /\ grows = 0
    /\ hung = FALSE
    /\ calc = NoCalc

(***************************************************************************)
(* The hash functions of a run.  The map compares keys for equality only,  *)
(* so renaming the keys of a run gives a run; the keys are therefore       *)
(* numbered in the order of their hashes, and every run with an arbitrary  *)
(* hash function over Keys is a renaming of one of these.  Keys are still  *)
(* inserted in every order.                                                *)
(***************************************************************************)
HashFns == {f \in [Keys -> Hashes] : \A j, k \in Keys : j < k => f[j] <= f[k]}

\* HashMap::with_capacity with a power-of-two capacity >= 2.
Init == InitFor(InitCaps, {DefaultLoadFactor}, HashFns)

\* HashMap::with_capacity with any capacity >= 1.
InitAny == InitFor(1..MaxRequested, {DefaultLoadFactor}, HashFns)

\* A call insert(k, v).  A call whose probe loop never exits leaves no
\* state behind it: the caller is stuck and the map is never seen again.
Insert(k, v) ==
    /\ ~hung
    /\ \E r \in {insert(map, k, v)} :
           /\ hung' = ~r.done
           /\ map' = IF r.done THEN r.map ELSE map
           /\ inserted' = IF r.done THEN [inserted EXCEPT ![k] = v] ELSE inserted
           /\ grows' = IF r.grew THEN grows + 1 ELSE grows
    /\ UNCHANGED <<hashOf, requested, calc>>

Next == \E k \in Keys, v \in Vals : Insert(k, v)

(***************************************************************************)
(* HashMap::with_capacity_and_factor with a power-of-two capacity >= 2 and *)
(* one of several load factors, the largest allowed among them.            *)
(***************************************************************************)
LoadFactors == {50, 90, 100}

InitFactor == InitFor(InitCaps, LoadFactors, HashFns)

SpecFactor == InitFactor /\ [][Next]_vars

(***************************************************************************)
(* The calls of the free functions.  The map takes no part in them: it     *)
(* stays as constructed.                                                   *)
(***************************************************************************)
MapAside ==
    /\ requested = 2
    /\ map = with_capacity_and_factor(2, DefaultLoadFactor)
    /\ hashOf = [k \in Keys |-> 1]
    /\ inserted = [k \in Keys |-> 0]
    /\ grows = 0
    /\ hung = FALSE

\* hash_key on a key of any raw hash, in a build with or without overflow
\* checks.
InitHash ==
    /\ MapAside
    /\ \E raw \in 0..(Pow2Of(HashBits) - 1), checks \in BOOLEAN :
           calc = [fn |-> "hash_key", arg |-> raw, overflow_checks |-> checks,
                   out |-> None]

HashKey ==
    /\ calc.fn = "hash_key"
    /\ calc.out = None
    /\ calc' = [calc EXCEPT !.out = Some(hash_normalize(calc.arg, calc.overflow_checks))]
    /\ UNCHANGED <<map, hashOf, requested, inserted, grows, hung>>

SpecHash == InitHash /\ [][HashKey]_vars

\* pow2 on every argument from 1 to MaxPow2Arg.
InitPow2 ==
    /\ MapAside
    /\ \E v \in 1..MaxPow2Arg : calc = [fn |-> "pow2", arg |-> v, out |-> None]

Pow2 ==
    /\ calc.fn = "pow2"
    /\ calc.out = None
    /\ calc' = [calc EXCEPT !.out = Some(pow2(calc.arg))]
    /\ UNCHANGED <<map, hashOf, requested, inserted, grows, hung>>

SpecPow2 == InitPow2 /\ [][Pow2]_vars

Spec == Init /\ [][Next]_vars

SpecAny == InitAny /\ [][Next]_vars

(***************************************************************************)
(* The growth scenario: with_capacity_and_factor(4, 90), then the keys     *)
(* 1, 2, .., 10 inserted in this order, under every assignment of the      *)
(* scenario's hashes to the keys.  The three hashes share the home slot 3  *)
(* in a table of 4 slots and part in tables of 8 and 16.                   *)
(***************************************************************************)
ScenarioKeys == 1..10
ScenarioHashes == {3, 7, 15}

InitScenario ==
    InitFor({4}, {DefaultLoadFactor}, [ScenarioKeys -> ScenarioHashes])

\* The next key of the sequence: one more than the number inserted so far.
ScenarioInsert ==
    \E k \in ScenarioKeys :
        /\ k = 1 + Cardinality({j \in ScenarioKeys : inserted[j] # 0})
        /\ Insert(k, 1)

SpecScenario == InitScenario /\ [][ScenarioInsert]_vars


(***************************************************************************)
(* Vocabulary of the properties.                                           *)
(***************************************************************************)
\* The keys of the run and those inserted so far.
AllKeys == DOMAIN inserted
InsertedKeys == {k \in AllKeys : inserted[k] # 0}

\* The indices of the Occupied slots, and what they hold.
Occupied(m) == {i \in DOMAIN m.elems : m.elems[i] # None}
EntryAt(m, i) == Unwrap(m.elems[i])
KeysIn(m) == {EntryAt(m, i).key : i \in Occupied(m)}
Triples(m) ==
    {<<EntryAt(m, i).key, EntryAt(m, i).value, EntryAt(m, i).hash>> :
        i \in Occupied(m)}

RECURSIVE IsPow2(_)
IsPow2(n) == n = 1 \/ (n > 1 /\ n % 2 = 0 /\ IsPow2(n \div 2))

(***************************************************************************)
(* C1.  Round trip: after any sequence of inserts into a map created with  *)
(* a power-of-two capacity and load factor 90, get(k) returns Some(v) for  *)
(* every inserted key k, v being the value of the last insert of k.        *)
(***************************************************************************)
RoundTrip ==
    \A k \in AllKeys :
        inserted[k] # 0 => get(map, k) = Some(inserted[k])

\* Every key is in, two of them share a hash, and the map has grown twice.
RoundTripWitness ==
    /\ grows >= 2
    /\ InsertedKeys = AllKeys
    /\ \E j, k \in AllKeys : j # k /\ hashOf[j] = hashOf[k]
    /\ \A k \in AllKeys : get(map, k) = Some(inserted[k])

(***************************************************************************)
(* C2.  No false positives: get(k) returns None for every key k that was   *)
(* never inserted, also when k shares its hash or home slot with present   *)
(* keys and when every slot is occupied.                                   *)
(***************************************************************************)
NoFalsePositive ==
    \A k \in AllKeys :
        inserted[k] = 0 => get(map, k) = None

\* A full table, and an absent key with the hash of a present one.
NoFalsePositiveWitness ==
    /\ Occupied(map) = DOMAIN map.elems
    /\ \E k \in AllKeys \ InsertedKeys :
          /\ \E j \in InsertedKeys : hashOf[j] = hashOf[k]
          /\ get(map, k) = None

(***************************************************************************)
(* C3.  Overwrite: a call insert(k, v) for a present key k leaves len and  *)
(* the set of present keys as they were, makes get(k) return v and leaves  *)
(* the value of every other key unchanged, also when the call grows the    *)
(* table.  The map after the call is insert(map, k, v).map, which is what  *)
(* the action Insert(k, v) assigns.                                        *)
(***************************************************************************)
OverwriteCall(k, v) ==
    \A r \in {insert(map, k, v)} :
        /\ r.done
        /\ get(r.map, k) = Some(v)
        /\ len(r.map) = len(map)
        /\ KeysIn(r.map) = KeysIn(map)
        /\ \A j \in AllKeys \ {k} : get(r.map, j) = get(map, j)

\* In every reachable state, every call insert(k, v) for a present key k.
Overwrite ==
    \A k \in AllKeys, v \in Vals :
        get(map, k) # None => OverwriteCall(k, v)

\* A table of requested capacity 2 that has grown with two entries in it
\* and still has two: the insert that made it grow was an overwrite.
OverwriteWitness ==
    /\ requested = 2
    /\ grows = 1
    /\ len(map) = 2
    /\ Cardinality(Occupied(map)) = 2

(***************************************************************************)
(* C4.  Key uniqueness and count: no two Occupied slots hold equal keys,   *)
(* and len() is the number of Occupied slots, which is the number of       *)
(* distinct keys inserted so far.                                          *)
(***************************************************************************)
UniqueKeys ==
    /\ \A i, j \in Occupied(map) :
          EntryAt(map, i).key = EntryAt(map, j).key => i = j
    /\ len(map) = Cardinality(Occupied(map))
    /\ Cardinality(Occupied(map)) = Cardinality(InsertedKeys)

\* Three keys in a table that has grown, one of them away from its home
\* slot and one inserted with the second value.
UniqueKeysWitness ==
    /\ grows >= 1
    /\ len(map) = 3
    /\ \E i \in Occupied(map) : BitAnd(EntryAt(map, i).hash, map.mask) # i
    /\ \E k \in InsertedKeys : inserted[k] = 2

(***************************************************************************)
(* C5.  Growth preserves content: wherever insert calls grow, grow ends    *)
(* and gives a table of twice the capacity with the same load factor, the  *)
(* same len and the same (key, value, hash) triples, each in one slot.     *)
(***************************************************************************)
GrowPreserves ==
    NeedsGrow(map) =>
        \A g \in {grow(map)} :
            /\ g.done
            /\ capacity(g.map) = 2 * capacity(map)
            /\ g.map.load_factor = map.load_factor
            /\ len(g.map) = len(map)
            /\ Triples(g.map) = Triples(map)
            /\ Cardinality(Occupied(g.map)) = Cardinality(Occupied(map))

\* A table that has grown once is full again, with colliding entries, and
\* the next insert grows it.
GrowPreservesWitness ==
    /\ grows >= 1
    /\ NeedsGrow(map)
    /\ len(map) = 4
    /\ \E i \in Occupied(map) : distance(EntryAt(map, i).hash, i, capacity(map)) >= 2
    /\ Triples(grow(map).map) = Triples(map)

(***************************************************************************)
(* C6.  Capacity invariant: for any requested capacity n >= 1, capacity()  *)
(* is a power of two, at least n and at least len(), and no step makes it  *)
(* smaller.                                                                *)
(***************************************************************************)
CapacityState ==
    /\ IsPow2(capacity(map))
    /\ capacity(map) >= requested
    /\ len(map) <= capacity(map)

CapacityInvariant ==
    /\ []CapacityState
    /\ [][capacity(map') >= capacity(map)]_vars

\* A map requested with capacity 1 (capacity() is 2) that has grown twice.
CapacityWitness ==
    /\ requested = 1
    /\ grows >= 2
    /\ capacity(map) = 8
    /\ len(map) >= 4

(***************************************************************************)
(* C7.  Insert terminates: with a power-of-two capacity and load factor    *)
(* 90, no call of insert, and no reinsertion inside grow, enters a probe   *)
(* loop that never exits.  (Insert sets hung when the call it models does  *)
(* not end, and every call is tried in every reachable state.)             *)
(***************************************************************************)
InsertTerminates == ~hung

\* Inserts have ended on a full table, across two growths.
InsertTerminatesWitness ==
    /\ ~hung
    /\ grows >= 2
    /\ \E i \in Occupied(map) : EntryAt(map, i).dist >= 1
    /\ \A k \in AllKeys : insert(map, k, 1).done

(***************************************************************************)
(* C8.  Constructor geometry, as claimed: the slot array has the smallest  *)
(* power of two >= n slots, capacity() is the slot count, mask is          *)
(* capacity - 1 and threshold is capacity * load_factor / 100, at          *)
(* construction and in every state after it.                               *)
(***************************************************************************)
RECURSIVE SmallestPow2From(_, _)
SmallestPow2From(p, n) == IF p >= n THEN p ELSE SmallestPow2From(2 * p, n)

Geometry(m) ==
    /\ NumSlots(m) = capacity(m)
    /\ m.mask = capacity(m) - 1
    /\ m.threshold = (capacity(m) * m.load_factor) \div 100

ConstructorGeometry ==
    /\ grows = 0 => NumSlots(map) = SmallestPow2From(1, requested)
    /\ Geometry(map)

(***************************************************************************)
(* C9.  Iteration completeness: iter() run to exhaustion yields the        *)
(* (key, value) pairs of the Occupied slots, each once, in ascending slot  *)
(* order, len() items in all, the pairs being the current key -> value     *)
(* mapping; keys() yields their keys in the same order and iter_mut() the  *)
(* same keys in the same order.                                            *)
(***************************************************************************)
IterationComplete ==
    LET items == IterDrain(map, Iter_new)
        ks    == KeysDrain(map, Iter_new)
        muts  == iter_mut(map)
        n     == Len(items)
    IN  /\ n = len(map)
        /\ \A a, b \in 1..n : a < b => items[a].slot < items[b].slot
        /\ {items[a].slot : a \in 1..n} = Occupied(map)
        /\ \A a \in 1..n :
              items[a].item = <<EntryAt(map, items[a].slot).key,
                                EntryAt(map, items[a].slot).value>>
        /\ {items[a].item : a \in 1..n} =
              {<<k, inserted[k]>> : k \in InsertedKeys}
        /\ ks = [a \in 1..n |-> items[a].item[1]]
        /\ Len(muts) = n
        /\ \A a \in 1..n : muts[a].item[1] = items[a].item[1]

\* A grown table with empty slots between and before its entries.
IterationWitness ==
    /\ grows >= 1
    /\ len(map) >= 3
    /\ map.elems[0] = None
    /\ \E i, j \in Occupied(map) : i + 1 < j /\ map.elems[i + 1] = None
    /\ Len(IterDrain(map, Iter_new)) = len(map)

(***************************************************************************)
(* C10.  Growth scenario: from with_capacity_and_factor(4, 90), inserting  *)
(* 10 distinct keys, whatever their hashes, ends, has called grow at       *)
(* least twice by the 10th insert, and leaves len() = 10 and every key     *)
(* retrievable with its value.                                             *)
(***************************************************************************)
GrowthScenario ==
    /\ ~hung
    /\ Cardinality(InsertedKeys) = 10 =>
          /\ grows >= 2
          /\ len(map) = 10
          /\ \A k \in AllKeys : get(map, k) = Some(inserted[k])

\* All ten keys are in a table of 16 slots, some far from their home slot.
GrowthScenarioWitness ==
    /\ Cardinality(InsertedKeys) = 10
    /\ grows = 2
    /\ capacity(map) = 16
    /\ \E i \in Occupied(map) : distance(EntryAt(map, i).hash, i, capacity(map)) >= 3

(***************************************************************************)
(* C11.  Early termination: on every reachable table of a map created with *)
(* a power-of-two capacity, the lookup of a key that is not in the table   *)
(* ends with None after examining at most D + 2 slots, D being the largest *)
(* probe distance of an entry of the table (0 for the empty table); the    *)
(* bound holds in tables of every capacity and in tables with no Empty     *)
(* slot.                                                                   *)
(***************************************************************************)
\* The largest probe distance of an entry of the table.
MaxDistance(m) ==
    IF Occupied(m) = {} THEN 0
    ELSE CHOOSE d \in {distance(EntryAt(m, i).hash, i, capacity(m)) : i \in Occupied(m)} :
            \A i \in Occupied(m) : distance(EntryAt(m, i).hash, i, capacity(m)) <= d

\* The lookup of key k, as index runs it: its result and the slots examined.
Lookup(m, k) == index_loop(m, hash_key(k), k, BitAnd(hash_key(k), m.mask), 0)

EarlyTermination ==
    \A k \in AllKeys \ KeysIn(map) :
        \E r \in {Lookup(map, k)} :
            /\ r.pos = None
            /\ r.probes <= MaxDistance(map) + 2

\* A table with no Empty slot in which the lookup of an absent key examines
\* exactly D + 2 slots.
EarlyTerminationWitness ==
    /\ Occupied(map) = DOMAIN map.elems
    /\ \E k \in AllKeys \ KeysIn(map) :
            Lookup(map, k).probes = MaxDistance(map) + 2

(***************************************************************************)
(* C12.  The hash is never zero: for every raw hash of HashBits bits, in   *)
(* either build, the hash that hash_key returns is not zero.               *)
(***************************************************************************)
\* The call of hash_key has ended, with this outcome.
HashKeyEnded == calc.fn = "hash_key" /\ calc.out # None
HashKeyOutcome == Unwrap(calc.out)

HashNeverZero ==
    HashKeyEnded /\ ~HashKeyOutcome.panicked => HashKeyOutcome.value # 0

\* A raw hash of zero, returned as 1.
HashNeverZeroWitness ==
    HashKeyEnded /\ calc.arg = 0 /\ HashKeyOutcome = Returned(1)

(***************************************************************************)
(* C13.  The load bound: in a map created with a power-of-two capacity and *)
(* load factor 90, len <= threshold after every completed insert.          *)
(***************************************************************************)
LenWithinThreshold ==
    InsertedKeys # {} /\ ~hung => len(map) <= map.threshold

(***************************************************************************)
(* C14.  An Empty slot always exists: in a map created with a power-of-two *)
(* capacity and any load factor, threshold < capacity in every reachable   *)
(* state, len < capacity after every completed insert, and len < capacity  *)
(* whenever insert enters the probe loop of insert_raw, where its loop     *)
(* then ends.                                                              *)
(***************************************************************************)
\* The table that insert hands to insert_raw: the grown one where it grows.
TableAtProbeLoop(m) == IF NeedsGrow(m) THEN grow(m).map ELSE m

AlwaysAnEmptySlot ==
    /\ ~hung
    /\ map.threshold < capacity(map)
    /\ InsertedKeys # {} => len(map) < capacity(map)
    /\ \A t \in {TableAtProbeLoop(map)} : len(t) < capacity(t)

(***************************************************************************)
(* C15.  The recorded probe distance is exact: the dist field of the entry *)
(* in every Occupied slot i equals distance(hash, i, capacity), also for   *)
(* an entry that took its slot by displacing the occupant.                 *)
(***************************************************************************)
StoredDistanceExact ==
    \A i \in Occupied(map) :
        EntryAt(map, i).dist = distance(EntryAt(map, i).hash, i, capacity(map))

(***************************************************************************)
(* C16.  Robin Hood ordering.  As claimed: along a run of contiguous       *)
(* Occupied slots, in probe order with wraparound, the probe distances     *)
(* never decrease from a slot to the next.  That fails.  What holds: the   *)
(* probe distance rises by at most one from an Occupied slot to the next   *)
(* Occupied slot, in every table, full ones included.                      *)
(***************************************************************************)
\* The probe distance of the entry in Occupied slot i.
DistanceAt(m, i) == distance(EntryAt(m, i).hash, i, capacity(m))

\* The pairs of neighbouring Occupied slots: i and the slot probed after it.
Neighbours(m) ==
    {p \in Occupied(m) \X Occupied(m) : p[2] = NextPos(p[1], m)}

\* The claim as stated, on the tables with an Empty slot, where every run
\* has a first slot.
RunsNonDecreasing ==
    Occupied(map) # DOMAIN map.elems =>
        \A p \in Neighbours(map) : DistanceAt(map, p[1]) <= DistanceAt(map, p[2])

RunsRiseByAtMostOne ==
    \A p \in Neighbours(map) : DistanceAt(map, p[2]) <= DistanceAt(map, p[1]) + 1

\* A run in which the distance falls from a slot to the next, in a table
\* with an Empty slot, and rises by one elsewhere.
RunsRiseByAtMostOneWitness ==
    /\ Occupied(map) # DOMAIN map.elems
    /\ \E p \in Neighbours(map) : DistanceAt(map, p[1]) > DistanceAt(map, p[2])
    /\ \E p \in Neighbours(map) : DistanceAt(map, p[2]) = DistanceAt(map, p[1]) + 1

(***************************************************************************)
(* C17.  The probe path: for every Occupied slot i whose entry has probe   *)
(* distance d > 0, each of the d slots from the entry's home slot up to    *)
(* the slot before i is Occupied, and the entry at offset j of that path   *)
(* has probe distance >= j.  Hence index finds every key of the table, and *)
(* an insert of a key of the table overwrites that key's slot and leaves   *)
(* every other slot as it was.                                             *)
(***************************************************************************)
\* The slot at offset j of the probe path of hash h.
PathSlot(m, h, j) == BitAnd(BitAnd(h, m.mask) + j, m.mask)

PathOccupied(m) ==
    \A i \in Occupied(m) :
        \A j \in 0..(DistanceAt(m, i) - 1) :
            \E s \in {PathSlot(m, EntryAt(m, i).hash, j)} :
                /\ s \in Occupied(m)
                /\ DistanceAt(m, s) >= j

\* insert_raw of a key of table t changes the slot of that key only.
OverwritesInPlace(t, k, v) ==
    \E r \in {insert_raw(t, hash_key(k), k, v)} :
        /\ r.done
        /\ r.ret = TRUE
        /\ \A i \in DOMAIN t.elems :
              IF Some(i) = index(t, k)
              THEN /\ EntryAt(r.map, i).key = k
                   /\ EntryAt(r.map, i).value = v
              ELSE r.map.elems[i] = t.elems[i]

ProbePath ==
    /\ PathOccupied(map)
    /\ \A k \in KeysIn(map) : index(map, k) # None
    /\ \A t \in {TableAtProbeLoop(map)} :
          /\ PathOccupied(t)
          /\ \A k \in KeysIn(map), v \in Vals : OverwritesInPlace(t, k, v)

\* An entry two slots from home behind an entry that has probed as far as
\* the path offset and one that has probed further.
ProbePathWitness ==
    \E i \in Occupied(map) :
        /\ DistanceAt(map, i) >= 2
        /\ DistanceAt(map, PathSlot(map, EntryAt(map, i).hash, 1)) >= 1
        /\ DistanceAt(map, PathSlot(map, EntryAt(map, i).hash, 0)) >= 1

(***************************************************************************)
(* C18.  The sign fold lands in the positive range: for every raw hash,    *)
(* the least signed value included, the subtraction from 0 does not        *)
(* overflow and the hash returned, read as a signed integer, is > 0.       *)
(***************************************************************************)
SignFoldPositive ==
    HashKeyEnded =>
        /\ ~SubOverflows(0, AsSigned(calc.arg))
        /\ ~HashKeyOutcome.panicked
        /\ AsSigned(HashKeyOutcome.value) > 0

(***************************************************************************)
(* C19.  Iter::size_hint is exact: on every reachable map, after j calls   *)
(* of next that returned an item, size_hint() is (len - j, Some(len - j)), *)
(* which is the number of items next will still return; the subtraction    *)
(* len - num_found never underflows; and once next has returned None the   *)
(* hint is (0, Some(0)).                                                   *)
(***************************************************************************)
\* The hint is exact at iterator it, which has returned j items, and at
\* every iterator that calls of next lead to from it.
RECURSIVE SizeHintExactFrom(_, _, _)
SizeHintExactFrom(m, it, j) ==
    /\ it.num_found = j
    /\ ~SizeHintUnderflows(m, it)
    /\ size_hint(m, it) = <<len(m) - j, Some(len(m) - j)>>
    /\ Len(IterDrain(m, it)) = len(m) - j
    /\ \E r \in {Iter_next(m, it)} :
          IF r.item = None
          THEN /\ ~SizeHintUnderflows(m, r.it)
               /\ size_hint(m, r.it) = <<0, Some(0)>>
               /\ Iter_next(m, r.it) = r
          ELSE SizeHintExactFrom(m, r.it, j + 1)

SizeHintExact == SizeHintExactFrom(map, Iter_new, 0)

\* An iterator that has skipped an Empty slot and returned two of at least
\* three items, in a table with Empty slots left to scan.
SizeHintWitness ==
    /\ len(map) >= 3
    /\ len(map) < capacity(map)
    /\ map.elems[0] = None
    /\ \E it \in {Iter_next(map, Iter_next(map, Iter_new).it).it} :
          /\ it.num_found = 2
          /\ it.at > 2
          /\ size_hint(map, it) = <<len(map) - 2, Some(len(map) - 2)>>

(***************************************************************************)
(* C20.  pow2(v) is the smallest power of two >= v, for every v from 1 to  *)
(* MaxPow2Arg; so pow2(v) = v for every power of two v, 1 included.        *)
(***************************************************************************)
Pow2IsSmallest ==
    calc.fn = "pow2" /\ calc.out # None =>
        /\ Unwrap(calc.out) = SmallestPow2From(1, calc.arg)
        /\ IsPow2(calc.arg) => Unwrap(calc.out) = calc.arg

=============================================================================
